---- MODULE Spec2Model ----
(***************************************************************************)
(* NFC_Player (src/nfc_player.py): the tag registry (Database), the        *)
(* playback controller (VLC), the standby loop (play_loop / read_and_play  *)
(* / on_release) and the provisioning loop (write_loop / read_and_assign). *)
(*                                                                         *)
(* The reader library call clf.connect(rdwr=...) is modelled by what it    *)
(* does with the callbacks the program hands it: it senses a tag, calls    *)
(* on-connect; when that returns True it polls tag.is_present until the    *)
(* tag is gone and calls on-release, and since on_release returns None it  *)
(* goes on sensing without returning; when on-connect returns False it     *)
(* returns the tag; a KeyboardInterrupt inside it makes it return False.   *)
(* The playback engine is the environment: a command may or may not have   *)
(* taken effect by the next poll, and the engine moves between tracks on   *)
(* its own.                                                                *)
(***************************************************************************)
EXTENDS Integers, Sequences, FiniteSets, TLC

VARIABLES
    pc,            \* position of the running controller
    tagOn,         \* the tag physically on the reader, or NoTag
    tagContent,    \* what each tag carries: "NoNdef", "Empty" or an identifier
    tagObj,        \* self.tag.Tag: the tag the running callback was called with
    tagUUID,       \* self.tag.UUID
    tagPath,       \* self.tag.Path
    db,            \* rows of table music(UUID, path), in insertion order
    clfOpen,       \* the reader connection is open
    vlcReleased,   \* VLC.Instance.release() was called
    prev_uuid,     \* NFCPlayer.prev_uuid
    state,         \* MediaListPlayer.get_state()
    MediaList,     \* the list set on the MediaListPlayer
    vpc,           \* "idle", or "retry" inside VLC.__action_timeout
    vdesired,      \* desired_state of the running __action_timeout
    wait,          \* its local 'wait', in steps of 0.5
    issued,        \* how many times it called action()
    vres,          \* how the last play/pause/stop call ended
    vret,          \* where the controller continues after the call
    lastCmd,       \* the last command sent to the engine
    outcome,       \* how the last read_and_play resolved
    resolves,      \* read_and_play calls since the tag was put on the reader
    rebuilt,       \* the last read_and_play called add_media_to_playlist
    sessionFor,    \* the identifier the engine's list was last built for
    cmdSinceSense, \* an engine command was sent since the last on-connect
    batchMode,     \* NFCPlayer._BATCH_MODE
    batch_dirs,    \* NFCPlayer.batch_dirs
    dropped,       \* <<folder, how>>: folders taken off the queue, by a "pop" or a "skip"
    reprint,       \* NFCPlayer.reprint
    announced,     \* the folder of the last "Assigning ..." line printed
    halt,          \* NFCPlayer.halt
    minted,        \* number of identifiers uuid4() has produced
    verified,      \* result of the round-trip check of the last read_and_assign
    wres,          \* how the last write of a tag ended
    written,       \* identifiers whose tag write completed
    replaced,      \* <<old, new>>: new was minted for a tag that carried old
    cancels,       \* cancellation signals of the current skip-or-abort exchange
    exitBy,        \* why write_loop ended
    dbres,         \* the last registry call: <<operation, uuid, path, what it returned>>
    args,          \* the command line: write_mode, batch_mode_dir, check_paths, lines of the batch file
    tries,         \* tries of NFCPlayer.__init__
    attempt,       \* attempt of NFCPlayer.__init__: what the last clf.open returned
    opens,         \* calls of clf.open so far
    ran            \* what main ran after the construction

vars == <<pc, tagOn, tagContent, tagObj, tagUUID, tagPath, db, clfOpen, vlcReleased,
          prev_uuid, state, MediaList, vpc, vdesired, wait, issued, vres, vret,
          lastCmd, outcome, resolves, rebuilt, sessionFor, cmdSinceSense,
          batchMode, batch_dirs, dropped, reprint, announced, halt, minted, verified, wres, written,
          replaced, cancels, exitBy, dbres, args, tries, attempt, opens, ran>>

startVars == <<args, tries, attempt, opens, ran>>
tagVars  == <<tagOn, tagContent, tagObj, tagUUID, tagPath>>
vlcVars  == <<state, MediaList, vpc, vdesired, wait, issued, vres, vret, lastCmd>>
playVars == <<prev_uuid, outcome, resolves, rebuilt, sessionFor, cmdSinceSense>>
provVars == <<batchMode, batch_dirs, dropped, reprint, announced, halt, minted, verified, wres,
              written, replaced, cancels, exitBy>>

None  == "None"
NoTag == "NoTag"

(***************************************************************************)
(* The file system the classifier looks at.                                *)
(***************************************************************************)
AudioFiles == {"/albumA/a1.mp3", "/albumA/a2.mp3", "/albumB/b1.mp3", "/s.mp3"}

\* sorted(os.listdir(directory)), each joined with the directory
DirFiles(p) ==
    CASE p \in {"/albumA", "/albumA/"} ->
            <<"/albumA/a1.mp3", "/albumA/a2.mp3", "/albumA/cover.jpg", "/albumA/list.m3u">>
      [] p = "/albumB" -> <<"/albumB/b1.mp3">>
      [] OTHER -> <<>>

is_playlist(f) == f \in {"/albumA/list.m3u"}

\* mimetypes: .mp3 and .m3u are audio/*, .jpg is not
MimeAudio(f) == f \in AudioFiles \cup {"/albumA/list.m3u"}

is_audio_track(f) == MimeAudio(f) /\ ~is_playlist(f)

isfile(p) == p = "/s.mp3"

\* iterating a str yields its characters
CharsOf(p) == IF p = "/s.mp3" THEN <<"/", "s", ".", "m", "p", "3">> ELSE <<>>

\* os.path.normpath on the paths of the model
normpath(p) == IF p = "/albumA/" THEN "/albumA" ELSE p

\* the list add_media_to_playlist hands to VLC.add_track_mrls
add_media_to_playlist(directory) ==
    IF isfile(directory)
    THEN CharsOf(directory)
    ELSE SelectSeq(DirFiles(directory), is_audio_track)

check_if_directory_contains_media(path) ==
    /\ path # None
    /\ path \in {"/albumA", "/albumA/", "/albumB", "/empty"}
    /\ Len(SelectSeq(DirFiles(path), is_audio_track)) > 0

(***************************************************************************)
(* Database                                                                *)
(***************************************************************************)
Blank(s) == s \in {None, "", " "}

RECURSIVE FirstRow(_, _)
FirstRow(d, uuid) ==
    IF d = <<>> THEN None
    ELSE IF Head(d)[1] = uuid THEN Head(d)[2] ELSE FirstRow(Tail(d), uuid)

get_path(d, uuid) ==
    IF uuid = None THEN None
    ELSE LET res == FirstRow(d, uuid)
         IN  IF res = None THEN None ELSE normpath(res)

create_entry(d, uuid, path) ==
    IF Blank(uuid) \/ Blank(path) THEN d ELSE Append(d, <<uuid, path>>)

\* what create_entry returns: the bare "return" of the invalid branch and the
\* end of the function both give None (BadEntryException is never raised)
create_entry_returns(uuid, path) ==
    IF Blank(uuid) \/ Blank(path) THEN None ELSE None

\* DELETE FROM music, without the WHERE
remove_entry_All(d, uuid) == <<>>
remove_entry(d, uuid) == SelectSeq(d, LAMBDA r : r[1] # uuid)

Rows(d, uuid) == Cardinality({i \in 1..Len(d) : d[i][1] = uuid})

(***************************************************************************)
(* VLC                                                                     *)
(***************************************************************************)
States == {"NothingSpecial", "Playing", "Paused", "Stopped", "Ended"}

Timeout      == 3   \* the timeout play, pause and stop pass
TicksPerUnit == 2   \* one step of 'wait' is 0.5

\* what the engine's state can be at the next poll after a command of the
\* list player (play, pause, stop), which may not have taken effect yet, and
\* after MediaPlayer.stop() ("hardstop"), the forced stop of the player itself
Land(cmd, s) ==
    CASE cmd = "play"  -> {s, "Playing"}
      [] cmd = "pause" -> IF s = "Playing" THEN {s, "Paused"} ELSE {s}
      [] cmd = "stop"  -> {s, "Stopped"}
      [] OTHER         -> {"Stopped"}

CmdFor(desired) ==
    CASE desired = "Playing" -> "play"
      [] desired = "Paused"  -> "pause"
      [] OTHER               -> "stop"

\* while (get_state() != desired_state) and (wait < timeout)
\* a loop that sends the command once before it looks at the state
LoopCond_DoWhile(s, desired, w) == (w = 0 \/ s # desired) /\ w < Timeout * TicksPerUnit
LoopCond_Above(s, desired, w) == s # desired /\ w <= Timeout * TicksPerUnit
LoopCond(s, desired, w) == s # desired /\ w < Timeout * TicksPerUnit

\* if wait >= timeout: raise
Raises(w) == w >= Timeout * TicksPerUnit

VLCEnter(desired, ret) ==
    /\ vpc' = "retry"
    /\ vdesired' = desired
    /\ wait' = 0
    /\ issued' = 0
    /\ vres' = "running"
    /\ vret' = ret

VLCSkip == UNCHANGED <<vpc, vdesired, wait, issued, vret>> /\ vres' = "skipped"

\* one turn of the loop of __action_timeout: action(); sleep; wait += 0.5
RetryStep ==
    /\ vpc = "retry"
    /\ LoopCond(state, vdesired, wait)
    /\ state' \in Land(CmdFor(vdesired), state)
    /\ wait' = wait + 1
    /\ issued' = issued + 1
    /\ lastCmd' = CmdFor(vdesired)
    /\ cmdSinceSense' = TRUE
    /\ UNCHANGED <<pc, tagVars, db, clfOpen, vlcReleased, MediaList, vpc, vdesired,
                   vres, vret, prev_uuid, outcome, resolves, rebuilt, sessionFor,
                   provVars, dbres, startVars>>

\* the loop ends, but play/pause/stop have no except branch: the exception
\* of the timeout leaves the controller and the callback
RetryExit_Propagates ==
    /\ vpc = "retry"
    /\ ~LoopCond(state, vdesired, wait)
    /\ IF Raises(wait)
       THEN /\ vres' = "timeout"
            /\ pc' = "crashed"
       ELSE /\ vres' = "ok"
            /\ pc' = vret
    /\ vpc' = "idle"
    /\ UNCHANGED <<tagVars, db, clfOpen, vlcReleased, state, MediaList, vdesired, wait,
                   issued, vret, lastCmd, playVars, provVars, dbres, startVars>>

\* the loop ends: raise on wait >= timeout, and the except branch of
\* play/pause/stop calls MediaPlayer.stop(); otherwise the call succeeded
RetryExit ==
    /\ vpc = "retry"
    /\ ~LoopCond(state, vdesired, wait)
    /\ IF Raises(wait)
       THEN /\ vres' = "timeout"
            /\ state' \in Land("hardstop", state)
            /\ lastCmd' = "hardstop"
            /\ cmdSinceSense' = TRUE
       ELSE /\ vres' = "ok"
            /\ UNCHANGED <<state, lastCmd, cmdSinceSense>>
    /\ vpc' = "idle"
    /\ pc' = vret
    /\ UNCHANGED <<tagVars, db, clfOpen, vlcReleased, MediaList, vdesired, wait,
                   issued, vret, prev_uuid, outcome, resolves, rebuilt, sessionFor,
                   provVars, dbres, startVars>>

\* a KeyboardInterrupt during time.sleep(0.5): the bare except of
\* play/pause/stop catches it like the timeout
RetryInterrupt ==
    /\ vpc = "retry"
    /\ issued > 0
    /\ vres' = "interrupted"
    /\ state' \in Land("hardstop", state)
    /\ lastCmd' = "hardstop"
    /\ cmdSinceSense' = TRUE
    /\ vpc' = "idle"
    /\ pc' = vret
    /\ UNCHANGED <<tagVars, db, clfOpen, vlcReleased, MediaList, vdesired, wait,
                   issued, vret, prev_uuid, outcome, resolves, rebuilt, sessionFor,
                   provVars, dbres, startVars>>

\* the engine on its own: a track ends, the next one starts, the list ends
EngineAuto ==
    /\ pc # "done"
    /\ \/ state = "Playing" /\ state' = "Ended"
       \/ state = "Ended" /\ Len(MediaList) > 1 /\ state' = "Playing"
       \/ state = "Ended" /\ state' = "Stopped"
    /\ UNCHANGED <<pc, tagVars, db, clfOpen, vlcReleased, MediaList, vpc, vdesired,
                   wait, issued, vres, vret, lastCmd, playVars, provVars, dbres, startVars>>

\* VLC.add_track_mrls: clear_playlist() stops the list player and makes a new
\* list; the tracks are added and the list is set on the player
add_track_mrls(track_list) ==
    /\ state' \in Land("stop", state)
    /\ MediaList' = track_list
    /\ lastCmd' = "replace"

\* VLC.play with the list it finds
VLC_play(list, ret) ==
    IF Len(list) > 0
    THEN VLCEnter("Playing", ret) /\ pc' = "call"
    ELSE VLCSkip /\ pc' = ret

\* VLC.pause
VLC_pause(ret) ==
    IF state = "Playing"
    THEN VLCEnter("Paused", ret) /\ pc' = "call"
    ELSE VLCSkip /\ pc' = ret

\* VLC.stop
VLC_stop(ret) == VLCEnter("Stopped", ret) /\ pc' = "call"

(***************************************************************************)
(* The playback controller on its own: play, pause, stop and               *)
(* add_track_mrls called in any order.                                     *)
(***************************************************************************)
TrackLists == {<<>>, <<"/albumB/b1.mp3">>, <<"/albumA/a1.mp3", "/albumA/a2.mp3">>}

HPlay ==
    /\ pc = "harness"
    /\ VLC_play(MediaList, "harness")
    /\ UNCHANGED <<tagVars, db, clfOpen, vlcReleased, state, MediaList, lastCmd,
                   playVars, provVars, dbres, startVars>>

HPause ==
    /\ pc = "harness"
    /\ VLC_pause("harness")
    /\ UNCHANGED <<tagVars, db, clfOpen, vlcReleased, state, MediaList, lastCmd,
                   playVars, provVars, dbres, startVars>>

HStop ==
    /\ pc = "harness"
    /\ VLC_stop("harness")
    /\ UNCHANGED <<tagVars, db, clfOpen, vlcReleased, state, MediaList, lastCmd,
                   playVars, provVars, dbres, startVars>>

HAddTracks ==
    /\ pc = "harness"
    /\ \E l \in TrackLists : add_track_mrls(l)
    /\ cmdSinceSense' = TRUE
    /\ UNCHANGED <<pc, tagVars, db, clfOpen, vlcReleased, vpc, vdesired, wait,
                   issued, vres, vret, prev_uuid, outcome, resolves, rebuilt,
                   sessionFor, provVars, dbres, startVars>>

(***************************************************************************)
(* Initial values shared by the specifications.                            *)
(***************************************************************************)
InitVLCVars ==
    /\ state = "NothingSpecial"
    /\ MediaList = <<>>
    /\ vpc = "idle"
    /\ vdesired = "NothingSpecial"
    /\ wait = 0
    /\ issued = 0
    /\ vres = "none"
    /\ vret = "none"
    /\ lastCmd = "none"

InitPlayVars ==
    /\ prev_uuid = "-1"
    /\ outcome = "none"
    /\ resolves = 0
    /\ rebuilt = FALSE
    /\ sessionFor = "none"
    /\ cmdSinceSense = FALSE

InitStartVars ==
    /\ args = [write_mode |-> FALSE, batch_mode_dir |-> None, check_paths |-> FALSE,
               lines |-> <<>>]
    /\ tries = 0
    /\ attempt = FALSE
    /\ opens = 0
    /\ ran = "none"

InitProvVars ==
    /\ batchMode = FALSE
    /\ batch_dirs = <<>>
    /\ dropped = {}
    /\ reprint = TRUE
    /\ announced = None
    /\ halt = FALSE
    /\ minted = 0
    /\ verified = FALSE
    /\ wres = "none"
    /\ written = {}
    /\ replaced = {}
    /\ cancels = 0
    /\ exitBy = "none"

InitVLC ==
    /\ pc = "harness"
    /\ tagOn = NoTag
    /\ tagContent = <<>>
    /\ tagObj = NoTag
    /\ tagUUID = None
    /\ tagPath = None
    /\ db = <<>>
    /\ clfOpen = TRUE
    /\ vlcReleased = FALSE
    /\ dbres = <<"none", None, None, None>>
    /\ InitVLCVars /\ InitPlayVars /\ InitProvVars /\ InitStartVars

NextVLC ==
    \/ HPlay \/ HPause \/ HStop \/ HAddTracks
    \/ RetryStep \/ RetryExit \/ RetryInterrupt \/ EngineAuto

SpecVLC == InitVLC /\ [][NextVLC]_vars

\* C3: Retry ceiling. When the loop of __action_timeout ends and the engine
\* is not in the desired state, the call ends in the timeout failure, and a call
\* that ends in the timeout failure has issued its command exactly
\* Timeout / 0.5 = 6 times, for play, pause and stop alike.
C3_RetryCeiling ==
    [][ (vpc = "retry" /\ vpc' = "idle" /\ vres' # "interrupted")
          => /\ (state # vdesired => vres' = "timeout")
             /\ (vres' = "timeout" => issued' = 6) ]_vars

C3_Witness ==
    /\ vres = "timeout"
    /\ issued = 6
    /\ vdesired = "Stopped"
    /\ lastCmd = "hardstop"

(***************************************************************************)
(* Standby: play_loop, read_and_play, on_release.                          *)
(***************************************************************************)
\* tX and tY carry registered identifiers, tU an identifier without a row,
\* tE an NDEF message of zero records, tN no NDEF data at all
StandbyTags == {"tX", "tY", "tZ", "tU", "tE", "tN"}

StandbyContent ==
    [t \in StandbyTags |->
        CASE t = "tX" -> "X" [] t = "tY" -> "Y" [] t = "tZ" -> "Z" [] t = "tU" -> "U"
          [] t = "tE" -> "Empty" [] OTHER -> "NoNdef"]

StandbyDB == << <<"X", "/albumA/">>, <<"Y", "/albumB">>, <<"Z", "/s.mp3">> >>

\* get_uuid_from_tag: None for an absent tag, for a tag without NDEF data (the
\* early return in write mode, the AttributeError otherwise) and for a message
\* of zero records; else the text of the first record
get_uuid_from_tag(content, present, writeMode) ==
    IF ~present THEN None
    ELSE IF content = "NoNdef" /\ writeMode THEN None
    ELSE IF content = "NoNdef" THEN None
    ELSE IF content = "Empty" THEN None
    ELSE content

\* what read_and_play returns to connect on each of its three paths
ReadAndPlayReturn_OnlyPlayed(res) == res = "Played"
ReadAndPlayReturn(res) == TRUE

\* connect after on-connect returned: wait for the removal, or return the tag
\* to play_loop, which calls connect again
AfterCallback(ret) == IF ret THEN "present" ELSE "wait"

\* prev_uuid after read_and_play loaded or resumed uuid
NextPrev_Forgotten(uuid) == prev_uuid
NextPrev(uuid) == uuid

\* a tag is put on the reader
Attach ==
    /\ pc # "done"
    /\ tagOn = NoTag
    /\ \E t \in DOMAIN tagContent : tagOn' = t
    /\ resolves' = 0
    /\ UNCHANGED <<pc, tagContent, tagObj, tagUUID, tagPath, db, clfOpen, vlcReleased,
                   vlcVars, prev_uuid, outcome, rebuilt, sessionFor, cmdSinceSense,
                   provVars, dbres, startVars>>

\* the tag is taken off the reader
Remove ==
    /\ pc # "done"
    /\ tagOn # NoTag
    /\ tagOn' = NoTag
    /\ UNCHANGED <<pc, tagContent, tagObj, tagUUID, tagPath, db, clfOpen, vlcReleased,
                   vlcVars, playVars, provVars, dbres, startVars>>

\* connect senses the tag and calls read_and_play, up to its call of VLC.play
ReadAndPlay ==
    /\ pc = "wait"
    /\ tagOn # NoTag
    /\ resolves' = resolves + 1
    /\ tagObj' = tagOn
    /\ \E present \in BOOLEAN :
         LET uuid == get_uuid_from_tag(tagContent[tagOn], present, FALSE)
             path == get_path(db, uuid)
         IN  /\ tagOn' = IF present THEN tagOn ELSE NoTag
             /\ IF uuid = None
                THEN /\ outcome' = (IF present THEN "NoMessage" ELSE "NoTag")
                     /\ tagUUID' = None /\ tagPath' = None
                     /\ rebuilt' = FALSE
                     /\ cmdSinceSense' = FALSE
                     /\ pc' = AfterCallback(ReadAndPlayReturn("NoMessage"))
                     /\ UNCHANGED <<vlcVars, prev_uuid, sessionFor>>
                ELSE IF path = None
                THEN /\ outcome' = "NoPath"
                     /\ tagUUID' = None /\ tagPath' = None
                     /\ rebuilt' = FALSE
                     /\ cmdSinceSense' = FALSE
                     /\ pc' = AfterCallback(ReadAndPlayReturn("NoPath"))
                     /\ UNCHANGED <<vlcVars, prev_uuid, sessionFor>>
                ELSE /\ outcome' = "Played"
                     /\ tagUUID' = uuid /\ tagPath' = path
                     /\ IF uuid # prev_uuid
                        THEN /\ add_track_mrls(add_media_to_playlist(path))
                             /\ prev_uuid' = NextPrev(uuid)
                             /\ rebuilt' = TRUE
                             /\ sessionFor' = uuid
                             /\ cmdSinceSense' = TRUE
                        ELSE /\ UNCHANGED <<state, MediaList, lastCmd, prev_uuid,
                                            sessionFor>>
                             /\ rebuilt' = FALSE
                             /\ cmdSinceSense' = FALSE
                     /\ VLC_play(MediaList', AfterCallback(ReadAndPlayReturn("Played")))
    /\ UNCHANGED <<tagContent, db, clfOpen, vlcReleased, provVars, dbres, startVars>>

\* connect sees the tag gone and calls on_release, which calls VLC.pause
OnRelease ==
    /\ pc = "present"
    /\ tagOn # tagObj
    /\ VLC_pause("wait")
    /\ UNCHANGED <<tagVars, db, clfOpen, vlcReleased, state, MediaList, lastCmd,
                   playVars, provVars, dbres, startVars>>

\* quit_player: close the reader, release the VLC instance
quit_player ==
    /\ clfOpen' = FALSE
    /\ vlcReleased' = TRUE

\* a KeyboardInterrupt while connect waits for a tag or for its removal:
\* connect returns False, play_loop breaks and calls quit_player
CancelStandby ==
    /\ pc \in {"wait", "present"}
    /\ quit_player
    /\ pc' = "done"
    /\ UNCHANGED <<tagVars, db, vlcVars, playVars, provVars, dbres, startVars>>

InitStandby ==
    /\ pc = "wait"
    /\ tagOn = NoTag
    /\ tagContent = StandbyContent
    /\ tagObj = NoTag
    /\ tagUUID = None
    /\ tagPath = None
    /\ db = StandbyDB
    /\ clfOpen = TRUE
    /\ vlcReleased = FALSE
    /\ dbres = <<"none", None, None, None>>
    /\ InitVLCVars /\ InitPlayVars /\ InitProvVars /\ InitStartVars

NextStandby ==
    \/ Attach \/ Remove \/ ReadAndPlay \/ OnRelease \/ CancelStandby
    \/ RetryStep \/ RetryExit \/ RetryInterrupt \/ EngineAuto

SpecStandby == InitStandby /\ [][NextStandby]_vars

\* C2: Debounce. A read_and_play that resolves a registered identifier
\* rebuilds the engine's list if and only if that identifier differs from the
\* one the current list was built for; when it is the same, the list, the
\* engine and the session are left alone and only play() is called.
C2_Debounce ==
    [][ (resolves' = resolves + 1 /\ outcome' = "Played")
          => /\ rebuilt' <=> (tagUUID' # sessionFor)
             /\ rebuilt' => /\ sessionFor' = tagUUID'
                            /\ MediaList' = add_media_to_playlist(tagPath')
             /\ ~rebuilt' => /\ MediaList' = MediaList
                             /\ sessionFor' = sessionFor
                             /\ state' = state
                             /\ lastCmd' = lastCmd
             /\ Len(MediaList') > 0 => (vpc' = "retry" /\ vdesired' = "Playing") ]_vars

C2_Witness ==
    /\ outcome = "Played"
    /\ resolves = 1
    /\ ~rebuilt
    /\ tagUUID = sessionFor
    /\ vpc = "retry" /\ vdesired = "Playing" /\ issued = 0

\* C4: Auto-pause on removal. Whenever the standby loop waits for the next tag
\* and no tag is on the reader, the engine is not Playing.
C4_AutoPause == (pc = "wait" /\ tagOn = NoTag) => state # "Playing"

\* C5: Standby cancellation. Once the loop has ended on a cancellation, a final
\* stop() has left the engine neither Playing nor Paused.
C5_FinalStop == pc = "done" => state \notin {"Playing", "Paused"}

\* C6: Removal before re-trigger. Every read_and_play is the first one since
\* the tag was put on the reader, and whatever its outcome the loop goes on to
\* wait for the removal of the tag: one attachment, at most one resolve.
C6_RemovalBeforeRetrigger ==
    [][ resolves' = resolves + 1
          => /\ resolves = 0
             /\ pc' \in {"present", "call"}
             /\ pc' = "call" => vret' = "present" ]_vars

C6_Witness ==
    /\ outcome = "NoPath"
    /\ pc = "present"
    /\ tagOn = "tU"
    /\ resolves = 1

\* C7: Scenario A. After a tag without a decodable record was read, no engine
\* command is issued until the next tag is read.
C7_NoCommand == outcome = "NoMessage" => ~cmdSinceSense

(***************************************************************************)
(* Provisioning: write_loop, read_and_assign.                              *)
(***************************************************************************)
MaxMint == 2

\* "NFCMP_" + str(uuid.uuid4()): the n-th identifier minted
MintPool == <<"NFCMP_1", "NFCMP_2", "NFCMP_3", "NFCMP_4", "NFCMP_5", "NFCMP_6">>
Mint(n) == MintPool[n]

ProvTags == {"t1", "t2"}

\* the queues load_batch_directories_file can leave: existing paths, in file order
BatchInputs == {<<"/albumB">>, <<"/albumA/", "/albumB">>, <<"/albumB", "/empty">>,
                <<"/empty", "/albumB", "/albumA/">>}

\* what the operator can give select_media_directory
SelectInputs == {"/albumA/", "/albumB", "/empty", "/gone"}

Last(q) == q[Len(q)]
Front(q) == SubSeq(q, 1, Len(q) - 1)

\* while True and not xor(bool(_BATCH_MODE), bool(len(batch_dirs) > 0))
LoopRuns == ~((batchMode /\ ~(Len(batch_dirs) > 0)) \/ (~batchMode /\ Len(batch_dirs) > 0))

\* the entry is removed before the answer is looked at
ConfirmDb_Always(d, uuid, ans) == remove_entry(d, uuid)
\* the registry after the operator answered the overwrite question
ConfirmDb_Kept(d, uuid, ans) == d
ConfirmDb(d, uuid, ans) == IF ans = "Y" THEN remove_entry(d, uuid) ELSE d

\* "if self._BATCH_MODE and len(self.batch_dirs) > 1" after an interrupted connect
OffersSkip == batchMode /\ Len(batch_dirs) > 1

\* the head of the loop of write_loop: the loop condition, the announcement
\* (which reads batch_dirs[-1] in batch mode), halt = False, and into connect
LoopTop ==
    /\ pc = "top"
    /\ IF LoopRuns
       THEN /\ reprint' = FALSE
            /\ announced' = IF reprint /\ batchMode THEN Last(batch_dirs) ELSE announced
            /\ halt' = FALSE
            /\ pc' = "connect"
            /\ UNCHANGED <<clfOpen, vlcReleased, exitBy>>
       ELSE /\ quit_player
            /\ pc' = "done"
            /\ exitBy' = "empty"
            /\ UNCHANGED <<reprint, announced, halt>>
    /\ UNCHANGED <<tagVars, db, vlcVars, playVars, batchMode, batch_dirs, dropped, minted,
                   verified, wres, written, replaced, cancels, dbres, startVars>>

\* lines 507-517 of read_and_assign: mint the identifier, take the folder
MintAndSelect(old) ==
    /\ tagUUID' = Mint(minted + 1)
    /\ minted' = minted + 1
    /\ replaced' = IF old = None THEN replaced ELSE replaced \cup {<<old, Mint(minted + 1)>>}
    /\ IF batchMode
       THEN IF batch_dirs = <<>>
            THEN \* pop from an empty list: IndexError leaves the program
                 /\ pc' = "crashed"
                 /\ exitBy' = "IndexError"
                 /\ UNCHANGED <<tagPath, batch_dirs, dropped>>
            ELSE /\ tagPath' = Last(batch_dirs)
                 /\ batch_dirs' = Front(batch_dirs)
                 /\ dropped' = dropped \cup {<<Last(batch_dirs), "pop">>}
                 /\ pc' = "write"
                 /\ UNCHANGED exitBy
       ELSE /\ tagPath' = None
            /\ pc' = "select"
            /\ UNCHANGED <<batch_dirs, dropped, exitBy>>

\* connect senses the tag and calls read_and_assign, up to the overwrite
\* question or, for a tag without a registration, up to the folder
ReadAndAssign ==
    /\ pc = "connect"
    /\ tagOn # NoTag
    /\ minted < MaxMint
    /\ reprint' = TRUE
    /\ tagObj' = tagOn
    /\ UNCHANGED announced
    /\ \E present \in BOOLEAN :
         LET uuid == get_uuid_from_tag(tagContent[tagOn], present, TRUE)
             path == get_path(db, uuid)
         IN  /\ tagOn' = IF present THEN tagOn ELSE NoTag
             /\ IF path # None
                THEN /\ tagUUID' = uuid
                     /\ tagPath' = path
                     /\ pc' = "confirm"
                     /\ UNCHANGED <<batch_dirs, dropped, minted, replaced, exitBy>>
                ELSE MintAndSelect(uuid)
    /\ wres' = "none"
    /\ UNCHANGED <<tagContent, db, clfOpen, vlcReleased, vlcVars, playVars, batchMode,
                   halt, verified, written, cancels, dbres, startVars>>

\* the operator answers "Do you want to overwrite this tag Y/N"
Confirm ==
    /\ pc = "confirm"
    /\ \E ans \in {"Y", "N"} :
         /\ db' = ConfirmDb(db, tagUUID, ans)
         /\ IF ans = "N"
            THEN /\ pc' = "present"
                 /\ UNCHANGED <<tagUUID, tagPath, batch_dirs, dropped, minted, replaced, exitBy>>
            ELSE MintAndSelect(tagUUID)
    /\ UNCHANGED <<tagOn, tagContent, tagObj, clfOpen, vlcReleased, vlcVars, playVars,
                   batchMode, reprint, announced, halt, verified, wres, written, cancels, dbres, startVars>>

\* interactive mode: one turn of "while check_if_directory_contains_media(Path)
\* is False: Path = select_media_directory()"
SelectDir ==
    /\ pc = "select"
    /\ \E p \in SelectInputs :
         /\ tagPath' = normpath(p)
         /\ pc' = IF check_if_directory_contains_media(normpath(p)) THEN "write" ELSE "select"
    /\ UNCHANGED <<tagOn, tagContent, tagObj, tagUUID, db, clfOpen, vlcReleased, vlcVars,
                   playVars, provVars, dbres, startVars>>

\* self.tag.Tag.ndef.records = [TextRecord(UUID)] completes
WriteTagOk ==
    /\ pc = "write"
    /\ tagOn = tagObj
    /\ tagContent[tagObj] # "NoNdef"
    /\ tagContent' = [tagContent EXCEPT ![tagObj] = tagUUID]
    /\ written' = written \cup {tagUUID}
    /\ wres' = "ok"
    /\ pc' = "commit"
    /\ UNCHANGED <<tagOn, tagObj, tagUUID, tagPath, db, clfOpen, vlcReleased, vlcVars,
                   playVars, batchMode, batch_dirs, dropped, reprint, announced, halt, minted, verified,
                   replaced, cancels, exitBy, dbres, startVars>>

\* the tag has no NDEF data: ndef is None and the assignment raises an
\* AttributeError nothing catches
WriteTagNoNdef ==
    /\ pc = "write"
    /\ tagContent[tagObj] = "NoNdef"
    /\ wres' = "failed"
    /\ pc' = "crashed"
    /\ exitBy' = "AttributeError"
    /\ UNCHANGED <<tagVars, db, clfOpen, vlcReleased, vlcVars, playVars, batchMode,
                   batch_dirs, dropped, reprint, announced, halt, minted, verified, written, replaced,
                   cancels, dbres, startVars>>

\* the write raises TagCommandError, but the error is swallowed in the callback
WriteTagFails_Swallowed ==
    /\ pc = "write"
    /\ tagContent[tagObj] # "NoNdef"
    /\ tagOn' = NoTag
    /\ \E c \in {tagContent[tagObj], "Empty"} :
         tagContent' = [tagContent EXCEPT ![tagObj] = c]
    /\ wres' = "failed"
    /\ pc' = "commit"
    /\ UNCHANGED <<tagObj, tagUUID, tagPath, db, clfOpen, vlcReleased, vlcVars, playVars,
                   batchMode, batch_dirs, dropped, reprint, announced, halt, minted, verified, written,
                   replaced, cancels, exitBy, dbres, startVars>>

\* the write raises TagCommandError (the tag was pulled): the tag keeps its
\* content or is left with an empty message; the error leaves read_and_assign
\* and connect, write_loop catches it, removes the entry of the identifier and
\* goes round its loop
WriteTagFails ==
    /\ pc = "write"
    /\ tagContent[tagObj] # "NoNdef"
    /\ tagOn' = NoTag
    /\ \E c \in {tagContent[tagObj], "Empty"} :
         tagContent' = [tagContent EXCEPT ![tagObj] = c]
    /\ wres' = "failed"
    /\ db' = remove_entry(db, tagUUID)
    /\ pc' = "top"
    /\ UNCHANGED <<tagObj, tagUUID, tagPath, clfOpen, vlcReleased, vlcVars, playVars,
                   batchMode, batch_dirs, dropped, reprint, announced, halt, minted, verified, written,
                   replaced, cancels, exitBy, dbres, startVars>>

\* the text of the first record of the tag, as the round-trip check decodes it
DecodeFirst(content) == IF content \in {"NoNdef", "Empty"} THEN None ELSE content

\* create_entry, then the round-trip check, then "return True"
Commit ==
    /\ pc = "commit"
    /\ db' = create_entry(db, tagUUID, tagPath)
    /\ verified' = (tagUUID = DecodeFirst(tagContent[tagObj]) /\ get_path(db', tagUUID) = tagPath)
    /\ pc' = "present"
    /\ UNCHANGED <<tagVars, clfOpen, vlcReleased, vlcVars, playVars, batchMode, batch_dirs, dropped,
                   reprint, announced, halt, minted, wres, written, replaced, cancels, exitBy, dbres, startVars>>

\* connect sees the tag gone and calls on_release (VLC.pause, nothing is
\* playing); on_release returns None, so connect goes on sensing
ReleaseProv ==
    /\ pc = "present"
    /\ tagOn # tagObj
    /\ VLCSkip
    /\ pc' = "connect"
    /\ UNCHANGED <<tagVars, db, clfOpen, vlcReleased, state, MediaList, lastCmd,
                   playVars, provVars, dbres, startVars>>

\* write_loop after "(connect(...) == False) or self.halt"
Interrupted(n) ==
    IF OffersSkip
    THEN /\ pc' = "skip"
         /\ cancels' = n
         /\ UNCHANGED <<clfOpen, vlcReleased, exitBy>>
    ELSE /\ quit_player
         /\ pc' = "done"
         /\ exitBy' = "cancel"
         /\ cancels' = n

\* a KeyboardInterrupt while connect waits for a tag or for its removal:
\* connect returns False
CancelConnect ==
    /\ pc \in {"connect", "present"}
    /\ Interrupted(1)
    /\ UNCHANGED <<tagVars, db, vlcVars, playVars, batchMode, batch_dirs, dropped, reprint, announced, halt,
                   minted, verified, wres, written, replaced, dbres, startVars>>

\* a KeyboardInterrupt inside read_and_assign (at a question, in the folder
\* selection, during the write): halt = True, return False
CancelCallback ==
    /\ pc \in {"confirm", "select", "write"}
    /\ halt' = TRUE
    /\ wres' = IF pc = "write" THEN "cancelled" ELSE wres
    /\ Interrupted(1)
    /\ UNCHANGED <<tagVars, db, vlcVars, playVars, batchMode, batch_dirs, dropped, reprint, announced,
                   minted, verified, written, replaced, dbres, startVars>>

\* the operator answers "Would you like to skip writing to ... Y/N"
Skip ==
    /\ pc = "skip"
    /\ \E ans \in {"Y", "N"} :
         IF ans = "Y"
         THEN /\ batch_dirs' = Front(batch_dirs)
              /\ dropped' = dropped \cup {<<Last(batch_dirs), "skip">>}
              /\ reprint' = TRUE
         ELSE UNCHANGED <<batch_dirs, dropped, reprint>>
    /\ cancels' = 0
    /\ pc' = "top"
    /\ UNCHANGED <<tagVars, db, clfOpen, vlcReleased, vlcVars, playVars, batchMode, halt, announced,
                   minted, verified, wres, written, replaced, exitBy, dbres, startVars>>

\* a KeyboardInterrupt at the skip question: "except KeyboardInterrupt: break"
CancelSkip ==
    /\ pc = "skip"
    /\ quit_player
    /\ pc' = "done"
    /\ exitBy' = "cancel"
    /\ cancels' = cancels + 1
    /\ UNCHANGED <<tagVars, db, vlcVars, playVars, batchMode, batch_dirs, dropped, reprint, announced, halt,
                   minted, verified, wres, written, replaced, dbres, startVars>>

InitProv ==
    /\ pc = "top"
    /\ tagOn = NoTag
    /\ tagContent \in [ProvTags -> {"NoNdef", "Empty", "X"}]
    /\ tagObj = NoTag
    /\ tagUUID = None
    /\ tagPath = None
    /\ db = << <<"X", "/albumA">> >>
    /\ clfOpen = TRUE
    /\ vlcReleased = FALSE
    /\ dbres = <<"none", None, None, None>>
    /\ InitVLCVars /\ InitPlayVars /\ InitStartVars
    /\ batchMode \in BOOLEAN
    /\ batch_dirs \in (IF batchMode THEN BatchInputs ELSE {<<>>})
    /\ dropped = {}
    /\ reprint = TRUE
    /\ announced = None
    /\ halt = FALSE
    /\ minted = 0
    /\ verified = FALSE
    /\ wres = "none"
    /\ written = {}
    /\ replaced = {}
    /\ cancels = 0
    /\ exitBy = "none"

NextProv ==
    \/ Attach \/ Remove \/ LoopTop \/ ReadAndAssign \/ Confirm \/ SelectDir
    \/ WriteTagOk \/ WriteTagNoNdef \/ WriteTagFails \/ Commit \/ ReleaseProv
    \/ CancelConnect \/ CancelCallback \/ Skip \/ CancelSkip

SpecProv == InitProv /\ [][NextProv]_vars

MintedIds == {Mint(i) : i \in 1..minted}

\* C1: Write-before-commit. The registry holds a row for a minted identifier
\* only if the write of that identifier onto the tag completed.
C1_WriteBeforeCommit == \A u \in MintedIds : Rows(db, u) > 0 => u \in written

C1_Witness ==
    /\ minted = 2
    /\ Mint(1) \notin written /\ Rows(db, Mint(1)) = 0
    /\ Mint(2) \in written /\ Rows(db, Mint(2)) = 1

\* C8: Provisioning overwrite ordering. From the moment a new identifier is
\* minted for a tag that carried an identifier, the old identifier has no row,
\* so the old and the new identifier of a tag are never both registered.
C8_OverwriteOrdering ==
    \A pr \in replaced :
        /\ Rows(db, pr[1]) = 0
        /\ ~(get_path(db, pr[1]) # None /\ get_path(db, pr[2]) # None)

C8_Witness ==
    \E pr \in replaced : pr[1] = "X" /\ get_path(db, pr[2]) # None

\* C10: Batch two-tier cancellation. In batch mode with a non-empty queue the
\* loop ends on a cancellation only when that cancellation is the second one,
\* arriving at the skip question the first one led to.
C10_TwoTier == (exitBy = "cancel" /\ batchMode /\ Len(batch_dirs) > 0) => cancels = 2

(***************************************************************************)
(* The registry on its own: create_entry, remove_entry and get_path called *)
(* in any order.                                                           *)
(***************************************************************************)
MaxRows == 3

DbIds   == {"A", "B", "", " "}
DbPaths == {"/albumA/", "/albumB", " "}

DbInsert ==
    /\ pc = "db"
    /\ Len(db) < MaxRows
    /\ \E u \in DbIds, p \in DbPaths :
         /\ db' = create_entry(db, u, p)
         /\ dbres' = <<"insert", u, p, create_entry_returns(u, p)>>
    /\ UNCHANGED <<pc, tagVars, clfOpen, vlcReleased, vlcVars, playVars, provVars, startVars>>

DbDelete ==
    /\ pc = "db"
    /\ \E u \in DbIds :
         /\ db' = remove_entry(db, u)
         /\ dbres' = <<"delete", u, None, None>>
    /\ UNCHANGED <<pc, tagVars, clfOpen, vlcReleased, vlcVars, playVars, provVars, startVars>>

DbLookup ==
    /\ pc = "db"
    /\ \E u \in DbIds \cup {None} : dbres' = <<"lookup", u, None, get_path(db, u)>>
    /\ UNCHANGED <<pc, tagVars, db, clfOpen, vlcReleased, vlcVars, playVars, provVars, startVars>>

InitDB ==
    /\ pc = "db"
    /\ tagOn = NoTag
    /\ tagContent = <<>>
    /\ tagObj = NoTag
    /\ tagUUID = None
    /\ tagPath = None
    /\ db = <<>>
    /\ clfOpen = TRUE
    /\ vlcReleased = FALSE
    /\ dbres = <<"none", None, None, None>>
    /\ InitVLCVars /\ InitPlayVars /\ InitProvVars /\ InitStartVars

NextDB == DbInsert \/ DbDelete \/ DbLookup

SpecDB == InitDB /\ [][NextDB]_vars

\* C9: Registry uniqueness. The registry holds at most one row per identifier.
C9_Unique == \A u \in DbIds : Rows(db, u) <= 1

\* a MediaPath that holds at least one audio track, or is one
HasAudio(path) == check_if_directory_contains_media(path) \/ is_audio_track(path)

\* C11: Registered MediaPath validity. Every row of a minted identifier, in
\* interactive and in batch mode, has a path that passes the audio check.
C11_ValidPaths ==
    \A i \in 1..Len(db) : db[i][1] \in MintedIds => HasAudio(db[i][2])

\* C12: Invalid insert. An insert with an empty or whitespace-only identifier
\* or path returns an outcome that no valid insert returns.
C12_InvalidEntry ==
    (dbres[1] = "insert" /\ (Blank(dbres[2]) \/ Blank(dbres[3])))
        => \A u \in DbIds, p \in DbPaths :
              ~(Blank(u) \/ Blank(p)) => create_entry_returns(u, p) # dbres[4]

\* C13: Registry round-trip. Right after an insert of a valid (id, path),
\* lookup(id) returns the normalized path.
C13_RoundTrip ==
    (dbres[1] = "insert" /\ ~Blank(dbres[2]) /\ ~Blank(dbres[3]))
        => get_path(db, dbres[2]) = normpath(dbres[3])

\* C14: Delete idempotence. A delete returns the same outcome whether or not
\* the identifier had a row; after it lookup finds nothing for the identifier,
\* the rows of the other identifiers are as before, and a registry without a
\* row for the identifier is unchanged.
C14_Delete ==
    [][ dbres'[1] = "delete"
          => /\ dbres'[4] = None
             /\ get_path(db', dbres'[2]) = None
             /\ Rows(db', dbres'[2]) = 0
             /\ \A u \in DbIds : u # dbres'[2] =>
                    SelectSeq(db', LAMBDA r : r[1] = u) = SelectSeq(db, LAMBDA r : r[1] = u)
             /\ Len(db') = Len(db) - Rows(db, dbres'[2])
             /\ Rows(db, dbres'[2]) = 0 => db' = db ]_vars

C14_Witness ==
    /\ dbres[1] = "delete"
    /\ dbres[2] = "A"
    /\ Rows(db, "A") = 0
    /\ Rows(db, "B") = 2

\* C15: Round-trip verification. When a tag that carried no identifier has been
\* given a folder with audio, in interactive or batch mode, the write went
\* through and the registration is in the registry, the round-trip check of
\* that callback reports success.
C15_Verification ==
    (/\ pc = "present"
     /\ wres = "ok"
     /\ Rows(db, tagUUID) > 0
     /\ HasAudio(tagPath)
     /\ \A pr \in replaced : pr[2] # tagUUID)
        => verified

\* C16: Playlist exactness. After the session has been rebuilt for a path, the
\* list of the engine is exactly the audio tracks of that path: the audio
\* files of a directory in sorted order, without non-audio and playlist files,
\* or the one track of a single playable file; nothing of the earlier session.
C16_Playlist ==
    (outcome = "Played" /\ rebuilt)
        => LET tracks == IF isfile(tagPath)
                         THEN IF is_audio_track(tagPath) THEN <<tagPath>> ELSE <<>>
                         ELSE SelectSeq(DirFiles(tagPath), is_audio_track)
           IN  MediaList = tracks

\* C17: Timeout handling. When play or pause give up at the retry ceiling, the
\* hard stop is the command issued and the engine is stopped; the failure
\* stays inside the playback controller: control returns to where the call was
\* made, the reader stays open and the loop is waiting for the removal of the
\* tag or for the next tag.
C17_Timeout ==
    [][ (vpc = "retry" /\ vpc' = "idle" /\ vres' = "timeout")
          => /\ Raises(wait)
             /\ lastCmd' = "hardstop"
             /\ state' = "Stopped"
             /\ pc' = vret
             /\ pc' \in {"present", "wait"}
             /\ clfOpen' /\ ~vlcReleased' ]_vars

C17_Witness ==
    /\ vres = "timeout"
    /\ vdesired = "Paused"
    /\ lastCmd = "hardstop"
    /\ state = "Stopped"
    /\ pc = "wait"
    /\ clfOpen

\* C18: Blank tag. A tag without NDEF data or with a message of zero records,
\* or whose identifier has no row, is never asked the overwrite question, and
\* its provisioning does not end in an error: the write of a tag that carried
\* nothing does not end the program.
C18_BlankTag ==
    /\ pc = "confirm" =>
          /\ tagContent[tagObj] \notin {"NoNdef", "Empty"}
          /\ get_path(db, tagContent[tagObj]) # None
    /\ (tagObj # NoTag /\ tagContent[tagObj] \in {"NoNdef", "Empty"}) =>
          ~(pc = "crashed" /\ wres = "failed")

\* C19: Batch queue consumption. In batch mode a callback takes the last
\* folder of the queue and shortens the queue by it; the queue is never popped
\* when it is empty; the folder committed for a tag is the folder that was
\* announced; and once the queue is empty the loop does not wait for another
\* tag.
C19_BatchQueue ==
    [][ batchMode =>
          /\ (pc \in {"connect", "confirm"} /\ batch_dirs' # batch_dirs) =>
                /\ batch_dirs # <<>>
                /\ tagPath' = Last(batch_dirs)
                /\ batch_dirs' = Front(batch_dirs)
          /\ exitBy' # "IndexError"
          /\ (pc = "commit" /\ pc' = "present") => tagPath = announced
          /\ batch_dirs' = <<>> => pc' # "connect" ]_vars

(***************************************************************************)
(* Startup: NFCPlayer.__init__ and the dispatch of main.                   *)
(***************************************************************************)
MaxTries == 6

exists(p) == p \in {"/albumA", "/albumA/", "/albumB", "/empty", "/s.mp3"}

\* the lines of the batch file that exist, as typed
load_batch_directories_file(lines) == SelectSeq(lines, exists)

BatchFiles == {<<>>, <<"/gone">>, <<"/albumB">>, <<"/albumA/", "/gone", "/albumB">>}

\* while (attempt == False) and (tries < 6)
OpenLoopCond_Le(a, t) == a = FALSE /\ t <= MaxTries
OpenLoopCond(a, t) == a = FALSE /\ t < MaxTries

\* __init__ up to the reader: the modes, the batch file, halt on an empty list
Construct ==
    /\ pc = "init"
    /\ IF args.batch_mode_dir # None
       THEN /\ batchMode' = TRUE
            /\ batch_dirs' = load_batch_directories_file(args.lines)
            /\ UNCHANGED dropped
       ELSE UNCHANGED <<batchMode, batch_dirs, dropped>>
    /\ IF args.batch_mode_dir # None /\ Len(load_batch_directories_file(args.lines)) = 0
       THEN halt' = TRUE /\ pc' = "main"
       ELSE /\ UNCHANGED halt
            /\ pc' = IF args.check_paths THEN "rest" ELSE "open"
    /\ UNCHANGED <<tagVars, db, clfOpen, vlcReleased, vlcVars, playVars, reprint,
                   announced, minted, verified, wres, written, replaced, cancels,
                   exitBy, dbres, startVars>>

\* tries = 0; attempt = self.clf.open(location)
OpenFirst ==
    /\ pc = "open"
    /\ tries' = 0
    /\ \E found \in BOOLEAN : attempt' = found /\ clfOpen' = found
    /\ opens' = opens + 1
    /\ pc' = "retry"
    /\ UNCHANGED <<tagVars, db, vlcReleased, vlcVars, playVars, provVars, dbres, args, ran>>

\* one turn of the while loop: attempt = self.clf.open(location); tries += 1
OpenAgain ==
    /\ pc = "retry"
    /\ OpenLoopCond(attempt, tries)
    /\ \E found \in BOOLEAN : attempt' = found /\ clfOpen' = found
    /\ tries' = tries + 1
    /\ opens' = opens + 1
    /\ UNCHANGED <<pc, tagVars, db, vlcReleased, vlcVars, playVars, provVars, dbres,
                   args, ran>>

\* after the loop: without a reader quit_player() (the reader is closed, there
\* is no VLC instance to release yet), halt = True and return
OpenDone ==
    /\ pc = "retry"
    /\ ~OpenLoopCond(attempt, tries)
    /\ IF attempt = FALSE
       THEN /\ clfOpen' = FALSE
            /\ halt' = TRUE
            /\ pc' = "main"
       ELSE /\ UNCHANGED <<clfOpen, halt>>
            /\ pc' = "rest"
    /\ UNCHANGED <<tagVars, db, vlcReleased, vlcVars, playVars, batchMode, batch_dirs, dropped,
                   reprint, announced, minted, verified, wres, written, replaced,
                   cancels, exitBy, dbres, startVars>>

\* the rest of __init__: the display mode, VLC(), the events, Database()
Rest ==
    /\ pc = "rest"
    /\ pc' = "main"
    /\ UNCHANGED <<tagVars, db, clfOpen, vlcReleased, vlcVars, playVars, provVars,
                   dbres, startVars>>

\* main after the construction
Main ==
    /\ pc = "main"
    /\ ran' = IF halt THEN "nothing"
              ELSE IF args.write_mode \/ args.batch_mode_dir # None THEN "write_loop"
              ELSE IF args.check_paths THEN "check_paths"
              ELSE "play_loop"
    /\ pc' = "exit"
    /\ UNCHANGED <<tagVars, db, clfOpen, vlcReleased, vlcVars, playVars, provVars,
                   dbres, args, tries, attempt, opens>>

InitStart ==
    /\ pc = "init"
    /\ tagOn = NoTag
    /\ tagContent = <<>>
    /\ tagObj = NoTag
    /\ tagUUID = None
    /\ tagPath = None
    /\ db = <<>>
    /\ clfOpen = FALSE
    /\ vlcReleased = FALSE
    /\ dbres = <<"none", None, None, None>>
    /\ InitVLCVars /\ InitPlayVars /\ InitProvVars
    /\ \E w \in BOOLEAN, c \in BOOLEAN :
         \/ args = [write_mode |-> w, batch_mode_dir |-> None, check_paths |-> c,
                    lines |-> <<>>]
         \/ \E f \in BatchFiles :
              args = [write_mode |-> w, batch_mode_dir |-> "batch.txt", check_paths |-> c,
                      lines |-> f]
    /\ tries = 0
    /\ attempt = FALSE
    /\ opens = 0
    /\ ran = "none"

NextStart == Construct \/ OpenFirst \/ OpenAgain \/ OpenDone \/ Rest \/ Main

SpecStart == InitStart /\ [][NextStart]_vars

\* C20: The reader that cannot be opened. Startup calls open once and then at
\* most MaxTries more times; it gives up only after all of them failed, then
\* the reader is closed, the process is marked halted, and main runs neither
\* the standby loop nor the provisioning loop.
C20_DeviceUnavailable ==
    /\ opens <= 1 + MaxTries
    /\ tries <= MaxTries
    /\ (pc \in {"main", "exit"} /\ opens > 0 /\ attempt = FALSE) =>
          /\ opens = 1 + MaxTries
          /\ halt
          /\ ~clfOpen
    /\ (pc = "exit" /\ opens > 0 /\ attempt = FALSE) => ran = "nothing"
    /\ (pc = "exit" /\ halt) => ran = "nothing"

C20_Witness ==
    /\ pc = "exit"
    /\ opens = 1 + MaxTries
    /\ attempt = FALSE
    /\ halt
    /\ ~clfOpen
    /\ ran = "nothing"

\* C21: Idempotent engine commands. A play, pause or stop that finds the engine
\* already in the state it asks for sends no command, ends without a failure
\* and leaves the engine as it is; a pause of a paused engine does not even
\* enter the retry loop.
C21_Idempotent ==
    [][ /\ (/\ vpc = "retry" /\ issued = 0 /\ wait = 0 /\ state = vdesired
            /\ (vpc' # vpc \/ issued' # issued))
             => /\ vpc' = "idle"
                /\ vres' = "ok"
                /\ issued' = 0
                /\ state' = state
                /\ lastCmd' = lastCmd
                /\ pc' = vret
        /\ (vpc = "idle" /\ vpc' = "retry" /\ vdesired' = "Paused") => state = "Playing"
        /\ (vres # "skipped" /\ vres' = "skipped")
             => state' = state /\ lastCmd' = lastCmd /\ vpc' = vpc ]_vars

C21_Witness ==
    /\ vpc = "idle"
    /\ vres = "ok"
    /\ issued = 0
    /\ vdesired = "Playing"
    /\ state = "Playing"
    /\ lastCmd = "play"

\* C22: Success within the ceiling. A retry loop that ends, uninterrupted, with
\* the engine in the desired state ends as a success, whichever attempt got it
\* there: no timeout is raised and no hard stop is sent; a timeout is raised
\* only with the engine not in the desired state.
C22_SuccessWithinCeiling ==
    [][ (vpc = "retry" /\ vpc' = "idle" /\ vres' # "interrupted")
          => /\ state = vdesired => /\ vres' = "ok"
                                    /\ lastCmd' = lastCmd
                                    /\ state' = state
             /\ vres' = "timeout" => state # vdesired ]_vars

\* C23: No silent loss of batch folders. In batch mode every folder taken off
\* the queue is no longer in the queue and was either dropped by a confirmed
\* skip, or is registered to an identifier whose tag write succeeded, or is
\* the folder of the tag session still under way; a failed write or a
\* cancellation does not leave a folder in none of these states.
C23_NoSilentLoss ==
    batchMode =>
        \A d \in dropped :
            /\ \A i \in 1..Len(batch_dirs) : batch_dirs[i] # d[1]
            /\ \/ d[2] = "skip"
               \/ \E i \in 1..Len(db) : db[i][2] = d[1] /\ db[i][1] \in written
               \/ pc \in {"write", "commit"} /\ tagPath = d[1]

\* C24: Tag write failure is recoverable. When the write fails because the tag
\* was pulled, the registry has no row for the identifier minted for the
\* attempt, and the provisioning loop goes on: control is back at the head of
\* the loop, the loop condition holds and the announcement is printed again.
C24_WriteFailure ==
    [][ (pc = "write" /\ wres' = "failed" /\ pc' # "crashed")
          => /\ Rows(db', tagUUID) = 0
             /\ pc' = "top"
             /\ reprint'
             /\ LoopRuns' ]_vars

\* C25: Overwrite declined. When the operator answers "N", the registry, the
\* content of the tags and the batch queue are as before, no identifier is
\* minted or written, and the callback ends waiting for the removal of the
\* tag: the reader senses again only once the tag it handled is gone.
C25_Declined ==
    [][ /\ (pc = "confirm" /\ pc' = "present")
             => /\ db' = db
                /\ tagContent' = tagContent
                /\ batch_dirs' = batch_dirs
                /\ dropped' = dropped
                /\ minted' = minted
                /\ written' = written
                /\ tagUUID' = tagUUID
        /\ (pc = "present" /\ pc' = "connect") => tagOn # tagObj ]_vars

C25_Witness ==
    /\ pc = "present"
    /\ minted = 0
    /\ tagUUID = "X"
    /\ tagContent[tagObj] = "X"
    /\ get_path(db, "X") = "/albumA"
    /\ tagOn = tagObj

====
